---- MODULE Spec2Model ----
(***************************************************************************)
(* Model of the staged build/test/deploy engine of src/ci_automation.py:   *)
(* CIPipeline.run_command, run_stage, generate_report,                     *)
(* format_stage_results, run_pipeline and main (Spec, FairSpec), the Run,  *)
(* Run Custom Pipeline and Stop buttons of CIPipelineGUI around the same   *)
(* engine (GuiSpec), run_pipeline called twice with the same command       *)
(* outcomes (DetSpec), run_pipeline followed by the window's worker with   *)
(* the same command outcomes (EquivSpec), the worker of Run Custom         *)
(* Pipeline (CustomSpec), and format_stage_results on its own (FmtSpec).   *)
(*                                                                         *)
(* Texts (stdout, stderr, error messages) are sequences of one-character   *)
(* strings.  Optional[str] is a sequence of at most one text: <<>> is      *)
(* None and <<t>> is the text t.  Durations are whole ticks.               *)
(***************************************************************************)
EXTENDS Integers, Sequences, FiniteSets, TLC

\* ------------------------------------------------------------------ bounds
MaxBuildCmds == 2

MaxTestCmds == 2

MaxDeployCmds == 1

MaxTimeout == 2

MaxElapsed == 1

MaxDrain == 1

MaxGuiCmds == 1

MaxRuns == 2

MaxDetCmds == 2

MaxFmtResults == 1

MaxOver == 100

MaxScriptLines == 2

MaxCustomCmds == 1

\* ------------------------------------------------------- program constants
TruncateLimit == 500

SentinelExitCode == -1

\* run_command(command, timeout=300): the timeout of a call that gives none
DefaultTimeout == 300

\* --------------------------------------------------------------- variables
VARIABLES
    config,          \* self.config: project_name and the three command lists
    pc,              \* position of run_pipeline / run_stage / run_command
    stage_name,      \* run_stage's stage_name argument
    results,         \* run_stage's local list `results`
    idx,             \* number of commands the for loop of run_stage has consumed
    processes,       \* OS processes launched by Popen and not yet reaped
    build_results,   \* run_pipeline's local build_results
    test_results,    \* run_pipeline's local test_results
    deploy_results,  \* run_pipeline's local deploy_results
    report,          \* the report run_pipeline returns
    trace,           \* history: stage entries, run_command calls and returns
    descendants,     \* processes started by a launched shell, still running
    gui,             \* CIPipelineGUI: is_running, buttons, completions
    saved,           \* the report held by the file ci_report.json
    exit_status,     \* sys.exit code of main: <<>> while it runs, else <<code>>
    first            \* what an earlier run_pipeline call on this object did

vars == <<config, pc, stage_name, results, idx, processes,
          build_results, test_results, deploy_results, report, trace,
          descendants, gui, saved, exit_status, first>>

\* ------------------------------------------------------------------- texts
Marker == <<".", ".", ".">>

None == <<>>

Some(text) == <<text>>

Digit(d) == CASE d = 0 -> "0" [] d = 1 -> "1" [] d = 2 -> "2" [] d = 3 -> "3"
              [] d = 4 -> "4" [] d = 5 -> "5" [] d = 6 -> "6" [] d = 7 -> "7"
              [] d = 8 -> "8" [] d = 9 -> "9"

RECURSIVE Digits(_)
Digits(n) == IF n < 10 THEN <<Digit(n)>>
             ELSE Append(Digits(n \div 10), Digit(n % 10))

\* f"Command timed out after {timeout}s\n{stderr}"
TimedOutMessage(timeout, stderr) ==
    <<"C","o","m","m","a","n","d"," ","t","i","m","e","d"," ",
      "o","u","t"," ","a","f","t","e","r"," ">>
    \o Digits(timeout) \o <<"s", "\n">> \o stderr

\* text[:n]
Slice(text, n) == SubSeq(text, 1, IF Len(text) < n THEN Len(text) ELSE n)

\* -------------------------------------------------------- PipelineStatus
PipelineStatus == {"PENDING", "RUNNING", "SUCCESS", "FAILED", "CANCELLED"}

StatusValue(status) ==
    CASE status = "PENDING"   -> "pending"
      [] status = "RUNNING"   -> "running"
      [] status = "SUCCESS"   -> "success"
      [] status = "FAILED"    -> "failed"
      [] status = "CANCELLED" -> "cancelled"

PipelineResult(status, duration, output, error, exit_code) ==
    [status |-> status, duration |-> duration, output |-> output,
     error |-> error, exit_code |-> exit_code]

\* ------------------------------------------------------------ configuration
CommandSpecs == [timeout : 1..MaxTimeout]

CommandLists(max) == UNION {[1..n -> CommandSpecs] : n \in 0..max}

Stages == {"Build", "Test", "Deploy"}

\* line.strip() is empty: the line holds nothing but blanks
IsBlank(line) == \A i \in DOMAIN line : line[i] = " "

\* the lines of the custom script that are run: `if line.strip():`
NonBlankLines(script) == SelectSeq(script, LAMBDA line : ~IsBlank(line))

\* pipeline.run_command(line.strip()) for each of them: no timeout is
\* passed, so every line runs under the default
ScriptCommands ==
    [i \in 1..Len(NonBlankLines(config.custom_script)) |->
        [timeout |-> DefaultTimeout]]

\* a stage whose own list is empty is given the build commands
StageCommandsMut(stage) ==
    CASE stage = "Build"  -> config.build_commands
      [] stage = "Test"   ->
            IF config.test_commands = <<>> THEN config.build_commands
            ELSE config.test_commands
      [] stage = "Deploy" ->
            IF config.deployment_commands = <<>> THEN config.build_commands
            ELSE config.deployment_commands

\* self.config[...] for the list run_pipeline passes to run_stage; for the
\* custom worker also the lines of the custom script it runs before the stages
StageCommands(stage) ==
    CASE stage = "Build"  -> config.build_commands
      [] stage = "Test"   -> config.test_commands
      [] stage = "Deploy" -> config.deployment_commands
      [] stage = "Script" -> ScriptCommands

\* ---------------------------------------------------- external processes
\* What a launched shell does: whether and when it exits on its own, with
\* which code, what it writes, whether it leaves a descendant that keeps the
\* inherited stdout/stderr pipes open (child), whether that descendant exits
\* at some time (mortal) or never, and whether it starts a descendant that
\* has redirected its output away from the pipes (detached).
\* process.returncode is the exit status of the shell, or -N when a signal N
\* ended it: -1 is a shell ended by SIGHUP.
ExitCodes == {0, 1, -1}

Stdouts == {<<"o">>}

Stderrs == {<<"e">>}

Behaviours ==
    [exits : BOOLEAN, elapsed : 0..MaxElapsed, code : ExitCodes,
     child : BOOLEAN, mortal : BOOLEAN, detached : BOOLEAN,
     stdout : Stdouts, stderr : Stderrs]

\* a shell that never exits has no exit time and no exit code of its own;
\* only a descendant holding the pipes is told mortal from immortal; a
\* detached descendant is followed for the shells that run into the timeout,
\* where run_command decides what is killed
WellFormed(b) ==
    /\ ~b.exits => (b.elapsed = 0 /\ b.code = 0)
    /\ ~b.child => ~b.mortal
    /\ b.detached => (~b.exits /\ ~b.child)

\* the text str(e) of the exception Popen raises
LaunchError == <<"E", "r", "r">>

\* the text str(e) of an exception communicate(timeout=timeout) raises other
\* than TimeoutExpired: MemoryError while the output is buffered, whose text
\* is empty
CommunicateError == <<>>

\* self.is_running, the two buttons, the statuses pipeline_complete was
\* called with, where in the history Stop was first pressed, the number of runs
\* started and the number of live worker threads besides the one pc follows
NoGui ==
    [is_running |-> FALSE, run_button |-> "normal", stop_button |-> "disabled",
     completions |-> <<>>, stopped |-> FALSE, stop_at |-> 0,
     runs |-> 0, others |-> 0]

NoReport ==
    [project |-> "",
     summary |-> [total_stages |-> 0, successful_stages |-> 0,
                  failed_stages |-> 0, total_duration |-> 0,
                  status |-> "NONE"],
     stages |-> [build |-> <<>>, test |-> <<>>, deploy |-> <<>>]]

\* no earlier run: else the history, the three result lists and the report
\* summary of that run
NoRun ==
    [done |-> FALSE, trace |-> <<>>, build |-> <<>>, test |-> <<>>,
     deploy |-> <<>>, summary |-> NoReport.summary]

\* ------------------------------------------------------------ run_command
\* process.communicate(timeout=timeout) returns only when the shell has
\* exited and both pipes have reached end of file, which needs every
\* process holding their write ends to be gone; otherwise TimeoutExpired.
CommunicateCompletes(b, timeout) ==
    b.exits /\ b.elapsed < timeout /\ ~b.child

\* process.communicate() after process.kill(): the shell is dead, the pipes
\* reach end of file once no descendant holds them any more.
DrainCompletes(b) == ~b.child

\* the comparison with 0 is inverted
StatusOfExitMut(exit_code) == IF exit_code # 0 THEN "SUCCESS" ELSE "FAILED"

\* PipelineStatus.SUCCESS if exit_code == 0 else PipelineStatus.FAILED
StatusOfExit(exit_code) == IF exit_code = 0 THEN "SUCCESS" ELSE "FAILED"

\* a process ended by a signal is reported as CANCELLED
CompletedResultMut(b) ==
    PipelineResult(IF b.code < 0 THEN "CANCELLED" ELSE StatusOfExit(b.code),
                   b.elapsed, b.stdout, Some(b.stderr), b.code)

\* the PipelineResult built after communicate(timeout) returned
CompletedResult(b) ==
    PipelineResult(StatusOfExit(b.code), b.elapsed, b.stdout,
                   Some(b.stderr), b.code)

\* what was captured before the kill is dropped
TimedOutResultMut(b, timeout, drain) ==
    PipelineResult("FAILED", timeout + drain, <<>>,
                   Some(TimedOutMessage(timeout, <<>>)), SentinelExitCode)

\* the except TimeoutExpired branch; the duration covers the timeout and the
\* time the second communicate() took
TimedOutResult(b, timeout, drain) ==
    PipelineResult("FAILED", timeout + drain, b.stdout,
                   Some(TimedOutMessage(timeout, b.stderr)), SentinelExitCode)

\* the launch failure is reported as exit code 1 with no description
LaunchFailedResultMut ==
    PipelineResult("FAILED", 0, <<>>, None, 1)

\* the outer `except Exception` when Popen raised
LaunchFailedResult ==
    PipelineResult("FAILED", 0, <<>>, Some(LaunchError), SentinelExitCode)

\* the outer `except Exception` after a successful launch
CommunicateFailedResult ==
    PipelineResult("FAILED", 0, <<>>, Some(CommunicateError), SentinelExitCode)

\* --------------------------------------------------------------- run_stage
\* the loop stops one command early
HasNextCommandMut == idx + 1 < Len(StageCommands(stage_name))

HasNextCommand == idx < Len(StageCommands(stage_name))

\* the next command is launched without waiting for the one in flight
CanCallRunCommandMut == pc \in {"loop", "communicate"} /\ HasNextCommand

CanCallRunCommand == pc = "loop" /\ HasNextCommand

\* the break after a FAILED result is missing
StopsStageMut(result) == FALSE

StopsStage(result) == result.status = "FAILED"

CurrentTimeout == StageCommands(stage_name)[idx + 1].timeout

CurrentProcess ==
    CHOOSE p \in processes : p.stage = stage_name /\ p.idx = idx + 1

Event(ev, stage, i) == [ev |-> ev, stage |-> stage, idx |-> i]

\* results.append(result); break on FAILED, else next iteration
AppendResult(result, events) ==
    /\ results' = Append(results, result)
    /\ idx' = idx + 1
    /\ pc' = IF StopsStage(result) THEN "return" ELSE "loop"
    /\ trace' = trace \o events \o <<Event("result", stage_name, idx + 1)>>

\* run_stage is called: results = [] and the for loop starts
EnterStage(stage, events) ==
    /\ stage_name' = stage
    /\ results' = <<>>
    /\ idx' = 0
    /\ pc' = "loop"
    /\ trace' = trace \o events \o <<Event("stage", stage, 0)>>

\* history entry for `return results` of run_stage
ReturnEvent == Event("return", stage_name, Len(results))

\* ------------------------------------------------------- generate_report
\* only the first result of the stage is examined
AnyFailedMut(rs) == rs # <<>> /\ rs[1].status = "FAILED"

AnyFailed(rs) == \E i \in 1..Len(rs) : rs[i].status = "FAILED"

\* the last result is left out of the sum
RECURSIVE SumDurationMut(_)
SumDurationMut(rs) ==
    IF Len(rs) <= 1 THEN 0
    ELSE Head(rs).duration + SumDurationMut(Tail(rs))

RECURSIVE SumDuration(_)
SumDuration(rs) ==
    IF rs = <<>> THEN 0 ELSE Head(rs).duration + SumDuration(Tail(rs))

IsFailed(r) == r.status = "FAILED"

IsSuccess(r) == r.status = "SUCCESS"

\* the slice starts at the second character
TruncateMut(text) ==
    IF Len(text) > TruncateLimit
    THEN SubSeq(text, 2, TruncateLimit + 1) \o Marker
    ELSE text

\* result.output[:500] + "..." if len(result.output) > 500 else result.output
Truncate(text) ==
    IF Len(text) > TruncateLimit THEN Slice(text, TruncateLimit) \o Marker
    ELSE text

\* the error is cut only when the output is: it is passed through
TruncateErrorMut(error) == error

\* result.error[:500] + "..." if result.error and len(result.error) > 500
\* else result.error
TruncateError(error) ==
    IF error # None /\ error[1] # <<>> /\ Len(error[1]) > TruncateLimit
    THEN Some(Slice(error[1], TruncateLimit) \o Marker)
    ELSE error

\* the records are listed last result first
format_stage_results_mut(rs) ==
    [i \in 1..Len(rs) |->
        [step |-> i,
         status |-> StatusValue(rs[Len(rs) + 1 - i].status),
         duration |-> rs[Len(rs) + 1 - i].duration,
         exit_code |-> rs[Len(rs) + 1 - i].exit_code,
         output |-> Truncate(rs[Len(rs) + 1 - i].output),
         error |-> TruncateError(rs[Len(rs) + 1 - i].error)]]

format_stage_results(rs) ==
    [i \in 1..Len(rs) |->
        [step |-> i,
         status |-> StatusValue(rs[i].status),
         duration |-> rs[i].duration,
         exit_code |-> rs[i].exit_code,
         output |-> Truncate(rs[i].output),
         error |-> TruncateError(rs[i].error)]]

\* a single failure is tolerated
OverallStatusMut(failed_stages) ==
    IF Len(failed_stages) <= 1 THEN "SUCCESS" ELSE "FAILED"

OverallStatus(failed_stages) ==
    IF failed_stages = <<>> THEN "SUCCESS" ELSE "FAILED"

\* the deploy results are left out of the summary
generate_report_mut(build, test, deploy) ==
    LET all_results == build \o test
        total_duration == SumDuration(all_results)
        failed_stages == SelectSeq(all_results, IsFailed)
        successful_stages == SelectSeq(all_results, IsSuccess)
    IN [project |-> config.project_name,
        summary |-> [total_stages |-> Len(all_results),
                     successful_stages |-> Len(successful_stages),
                     failed_stages |-> Len(failed_stages),
                     total_duration |-> total_duration,
                     status |-> OverallStatus(failed_stages)],
        stages |-> [build |-> format_stage_results(build),
                    test |-> format_stage_results(test),
                    deploy |-> format_stage_results(deploy)]]

generate_report(build, test, deploy) ==
    LET all_results == build \o test \o deploy
        total_duration == SumDuration(all_results)
        failed_stages == SelectSeq(all_results, IsFailed)
        successful_stages == SelectSeq(all_results, IsSuccess)
    IN [project |-> config.project_name,
        summary |-> [total_stages |-> Len(all_results),
                     successful_stages |-> Len(successful_stages),
                     failed_stages |-> Len(failed_stages),
                     total_duration |-> total_duration,
                     status |-> OverallStatus(failed_stages)],
        stages |-> [build |-> format_stage_results(build),
                    test |-> format_stage_results(test),
                    deploy |-> format_stage_results(deploy)]]

\* ------------------------------------------------------------------- Init
Init ==
    /\ config \in [project_name : {"MyProject"},
                   build_commands : CommandLists(MaxBuildCmds),
                   test_commands : CommandLists(MaxTestCmds),
                   deployment_commands : CommandLists(MaxDeployCmds)]
    /\ pc = "NotStarted"
    /\ stage_name = "Build"
    /\ results = <<>>
    /\ idx = 0
    /\ processes = {}
    /\ build_results = <<>>
    /\ test_results = <<>>
    /\ deploy_results = <<>>
    /\ report = NoReport
    /\ trace = <<>>
    /\ descendants = {}
    /\ gui = NoGui
    /\ saved = NoReport
    /\ exit_status = <<>>
    /\ first = NoRun

\* ---------------------------------------------------------------- actions
\* run_pipeline is called and calls run_stage("Build", ...)
StartPipeline ==
    /\ pc = "NotStarted"
    /\ EnterStage("Build", <<>>)
    /\ UNCHANGED <<gui, config, first, exit_status, processes, descendants, build_results, test_results,
                   deploy_results, report, saved>>

\* run_command: subprocess.Popen raises; the outer except builds the result
PopenFails ==
    /\ CanCallRunCommand
    /\ AppendResult(LaunchFailedResult, <<Event("call", stage_name, idx + 1)>>)
    /\ UNCHANGED <<gui, config, first, exit_status, stage_name, processes, descendants, build_results,
                   test_results, deploy_results, report, saved>>

\* run_command: subprocess.Popen starts the shell
PopenStarts ==
    /\ CanCallRunCommand
    /\ \E b \in Behaviours :
          /\ WellFormed(b)
          /\ processes' = processes \cup
                {[stage |-> stage_name, idx |-> idx + 1, b |-> b,
                  killed |-> FALSE, drain |-> 0]}
          /\ descendants' =
                IF b.detached
                THEN descendants \cup {[stage |-> stage_name, idx |-> idx + 1]}
                ELSE descendants
    /\ pc' = "communicate"
    /\ trace' = Append(trace, Event("call", stage_name, idx + 1))
    /\ UNCHANGED <<gui, config, first, exit_status, stage_name, results, idx, build_results,
                   test_results, deploy_results, report, saved>>

\* run_command: communicate(timeout) returns, the process is reaped
CommunicateReturns ==
    /\ pc = "communicate"
    /\ LET p == CurrentProcess IN
          /\ CommunicateCompletes(p.b, CurrentTimeout)
          /\ processes' = processes \ {p}
          /\ AppendResult(CompletedResult(p.b), <<>>)
    /\ UNCHANGED descendants
    /\ UNCHANGED <<gui, config, first, exit_status, stage_name, build_results, test_results,
                   deploy_results, report, saved>>

\* run_command: communicate(timeout) raises TimeoutExpired; process.kill()
CommunicateTimesOut ==
    /\ pc = "communicate"
    /\ LET p == CurrentProcess IN
          /\ ~CommunicateCompletes(p.b, CurrentTimeout)
          /\ processes' = (processes \ {p}) \cup {[p EXCEPT !.killed = TRUE]}
    /\ pc' = "drain"
    /\ UNCHANGED descendants
    /\ UNCHANGED <<gui, config, first, exit_status, stage_name, results, idx, build_results,
                   test_results, deploy_results, report, saved, trace>>

\* run_command: the second communicate() returns, the process is reaped
DrainReturns ==
    /\ pc = "drain"
    /\ LET p == CurrentProcess IN
          /\ DrainCompletes(p.b)
          /\ processes' = processes \ {p}
          /\ AppendResult(TimedOutResult(p.b, CurrentTimeout, p.drain), <<>>)
    /\ UNCHANGED descendants
    /\ UNCHANGED <<gui, config, first, exit_status, stage_name, build_results, test_results,
                   deploy_results, report, saved>>

\* run_command: communicate(timeout) raises an exception other than
\* TimeoutExpired while the output of a process that is still running is
\* buffered; the outer except builds the result and the process is neither
\* killed nor waited on
CommunicateRaises ==
    /\ pc = "communicate"
    /\ ~CurrentProcess.b.exits
    /\ AppendResult(CommunicateFailedResult, <<>>)
    /\ UNCHANGED <<gui, config, first, exit_status, stage_name, processes, descendants,
                   build_results, test_results, deploy_results, report, saved>>

\* the descendant holding the pipes of the process in flight exits; when
\* that is after the kill, the second communicate() has waited for it
DescendantExits ==
    /\ pc \in {"communicate", "drain"}
    /\ LET p == CurrentProcess IN
          /\ p.b.child /\ p.b.mortal
          /\ \E d \in 1..MaxDrain :
                processes' = (processes \ {p}) \cup
                    {[p EXCEPT !.b.child = FALSE, !.b.mortal = FALSE,
                               !.drain = IF pc = "drain" THEN d ELSE 0]}
    /\ UNCHANGED <<gui, config, first, exit_status, pc, stage_name, results, idx, descendants,
                   build_results, test_results, deploy_results, report, saved, trace>>

StageReturns == pc = "return" \/ (pc = "loop" /\ ~HasNextCommand)

\* the Test stage is entered whatever the Build results are
BuildReturnsMut ==
    /\ StageReturns
    /\ stage_name = "Build"
    /\ build_results' = results
    /\ EnterStage("Test", <<ReturnEvent>>)
    /\ UNCHANGED <<test_results, deploy_results>>
    /\ UNCHANGED <<gui, config, first, exit_status, processes, descendants, report, saved>>

\* run_pipeline after run_stage("Build") returned
BuildReturns ==
    /\ StageReturns
    /\ stage_name = "Build"
    /\ build_results' = results
    /\ IF AnyFailed(results)
       THEN /\ test_results' = <<>>
            /\ deploy_results' = <<>>
            /\ pc' = "report"
            /\ trace' = Append(trace, ReturnEvent)
            /\ UNCHANGED <<stage_name, results, idx>>
       ELSE /\ EnterStage("Test", <<ReturnEvent>>)
            /\ UNCHANGED <<test_results, deploy_results>>
    /\ UNCHANGED <<gui, config, first, exit_status, processes, descendants, report, saved>>

\* the Deploy stage is entered whatever the Test results are
TestReturnsMut ==
    /\ StageReturns
    /\ stage_name = "Test"
    /\ test_results' = results
    /\ EnterStage("Deploy", <<ReturnEvent>>)
    /\ UNCHANGED deploy_results
    /\ UNCHANGED <<gui, config, first, exit_status, processes, descendants, build_results, report, saved>>

\* run_pipeline after run_stage("Test") returned
TestReturns ==
    /\ StageReturns
    /\ stage_name = "Test"
    /\ test_results' = results
    /\ IF AnyFailed(results)
       THEN /\ deploy_results' = <<>>
            /\ pc' = "report"
            /\ trace' = Append(trace, ReturnEvent)
            /\ UNCHANGED <<stage_name, results, idx>>
       ELSE /\ EnterStage("Deploy", <<ReturnEvent>>)
            /\ UNCHANGED deploy_results
    /\ UNCHANGED <<gui, config, first, exit_status, processes, descendants, build_results, report, saved>>

\* run_pipeline after run_stage("Deploy") returned
DeployReturns ==
    /\ StageReturns
    /\ stage_name = "Deploy"
    /\ deploy_results' = results
    /\ pc' = "report"
    /\ trace' = Append(trace, ReturnEvent)
    /\ UNCHANGED <<gui, config, first, exit_status, stage_name, results, idx, processes, descendants,
                   build_results, test_results, report, saved>>

\* the report is also written to the file
GenerateReportMut ==
    /\ pc = "report"
    /\ report' = generate_report(build_results, test_results, deploy_results)
    /\ saved' = report'
    /\ pc' = "save"
    /\ UNCHANGED <<gui, config, first, exit_status, stage_name, results, idx,
                   processes, descendants, build_results, test_results,
                   deploy_results, trace>>

\* run_pipeline: report = self.generate_report(...)
GenerateReport ==
    /\ pc = "report"
    /\ report' = generate_report(build_results, test_results, deploy_results)
    /\ pc' = "save"
    /\ UNCHANGED <<gui, config, first, exit_status, stage_name, results, idx,
                   processes, descendants, build_results, test_results,
                   deploy_results, trace, saved>>

\* save_report: the file holds the report when open and json.dump succeed;
\* an IOError is logged and the file is left as it was
save_report(rep, written) == IF written THEN rep ELSE saved

\* a report that could not be saved is marked FAILED
FinishPipelineMut ==
    /\ pc = "save"
    /\ \E written \in BOOLEAN :
          /\ saved' = save_report(report, written)
          /\ report' = IF written THEN report
                       ELSE [report EXCEPT !.summary.status = "FAILED"]
    /\ pc' = "Completed"
    /\ UNCHANGED <<gui, config, first, exit_status, stage_name, results, idx,
                   processes, descendants, build_results, test_results,
                   deploy_results, trace>>

\* run_pipeline: self.save_report(report) and return report
FinishPipeline ==
    /\ pc = "save"
    /\ \E written \in BOOLEAN : saved' = save_report(report, written)
    /\ pc' = "Completed"
    /\ UNCHANGED report
    /\ UNCHANGED <<gui, config, first, exit_status, stage_name, results, idx, processes, descendants,
                   build_results, test_results, deploy_results, trace>>

\* every terminal status ends the process with code 0
main_exit_code_mut(rep) == 0

\* sys.exit(0 if report['summary']['status'] == 'SUCCESS' else 1)
main_exit_code(rep) == IF rep.summary.status = "SUCCESS" THEN 0 ELSE 1

\* main: run_pipeline has returned the report; print the summary and exit
MainExits ==
    /\ pc = "Completed"
    /\ exit_status = <<>>
    /\ exit_status' = <<main_exit_code(report)>>
    /\ UNCHANGED <<gui, config, first, pc, stage_name, results, idx, processes,
                   descendants, build_results, test_results, deploy_results,
                   report, trace, saved>>

Next ==
    \/ StartPipeline
    \/ PopenFails
    \/ PopenStarts
    \/ CommunicateReturns
    \/ CommunicateTimesOut
    \/ DrainReturns
    \/ CommunicateRaises
    \/ DescendantExits
    \/ BuildReturns
    \/ TestReturns
    \/ DeployReturns
    \/ GenerateReport
    \/ FinishPipeline
    \/ MainExits

Spec == Init /\ [][Next]_vars

\* every step of the program is eventually taken when it can be
FairSpec == Spec /\ WF_vars(Next)

\* ----------------------------------------------------------- CIPipelineGUI
\* The window runs the three stages in a worker thread (pc is the position
\* of that thread) while the Run and Stop buttons are handled by the main
\* thread.  The worker of the first Run is followed command by command; a
\* further worker is followed from its start to its pipeline_complete.

\* pipeline_complete as far as it gets: it resets the flag and the buttons,
\* sets the status text, and then reads self.status_var.master, an attribute
\* a tkinter StringVar does not have; the AttributeError leaves the method
\* before the report is generated.  completions records the calls.
pipeline_complete(g, status) ==
    [g EXCEPT !.is_running = FALSE,
              !.run_button = "normal",
              !.stop_button = "disabled",
              !.completions = Append(@, status)]

\* a worker calls pipeline_complete(status) inside its try block: the
\* exception pipeline_complete raises is caught by the worker's except
\* clause, which calls pipeline_complete("FAILED"); that call raises as
\* well and ends the thread
worker_complete(g, status) ==
    pipeline_complete(pipeline_complete(g, status), "FAILED")

GuiInit ==
    /\ config \in [project_name : {"MyProject"},
                   build_commands : CommandLists(MaxGuiCmds),
                   test_commands : CommandLists(MaxGuiCmds),
                   deployment_commands : CommandLists(MaxGuiCmds)]
    /\ pc = "NotStarted"
    /\ stage_name = "Build"
    /\ results = <<>>
    /\ idx = 0
    /\ processes = {}
    /\ build_results = <<>>
    /\ test_results = <<>>
    /\ deploy_results = <<>>
    /\ report = NoReport
    /\ trace = <<>>
    /\ descendants = {}
    /\ gui = NoGui
    /\ saved = NoReport
    /\ exit_status = <<>>
    /\ first = NoRun

\* CIPipelineGUI.run_pipeline: the Run button
GuiRunPipeline ==
    /\ gui.runs < MaxRuns
    /\ ~gui.is_running
    /\ gui' = [gui EXCEPT !.is_running = TRUE,
                          !.run_button = "disabled",
                          !.stop_button = "normal",
                          !.runs = @ + 1,
                          !.others = IF pc = "NotStarted" THEN @ ELSE @ + 1]
    /\ pc' = IF pc = "NotStarted" THEN "thread" ELSE pc
    /\ UNCHANGED <<config, first, exit_status, stage_name, results, idx, processes, descendants,
                   build_results, test_results, deploy_results, report, saved, trace>>

\* run_custom_pipeline: the Run Custom Pipeline button starts a worker for
\* the pipeline of manual_rules_config.json
GuiRunCustomPipeline ==
    /\ gui.runs < MaxRuns
    /\ gui' = [gui EXCEPT !.runs = @ + 1, !.others = @ + 1]
    /\ UNCHANGED <<config, first, exit_status, pc, stage_name, results, idx,
                   processes, descendants, build_results, test_results,
                   deploy_results, report, saved, trace>>

\* a worker other than the followed one ends with pipeline_complete(status)
GuiOtherThreadEnds ==
    /\ gui.others > 0
    /\ \E status \in {"SUCCESS", "FAILED"} :
          /\ gui' = [worker_complete(gui, status) EXCEPT !.others = @ - 1]
    /\ UNCHANGED <<config, first, exit_status, pc, stage_name, results, idx,
                   processes, descendants, build_results, test_results,
                   deploy_results, report, saved, trace>>

\* the number of worker threads that are alive
LiveWorkers ==
    gui.others + (IF pc \in {"NotStarted", "Completed"} THEN 0 ELSE 1)

\* stop_pipeline: the Stop button
GuiStopPipeline ==
    /\ gui.is_running
    /\ gui' = [pipeline_complete(gui, "CANCELLED")
                  EXCEPT !.stopped = TRUE,
                         !.stop_at = IF gui.stopped THEN @ ELSE Len(trace)]
    /\ UNCHANGED <<config, first, exit_status, pc, stage_name, results, idx, processes,
                   descendants, build_results, test_results, deploy_results,
                   report, saved, trace>>

\* _run_pipeline_thread starts and calls run_stage("Build", ...)
GuiThreadStarts ==
    /\ pc = "thread"
    /\ EnterStage("Build", <<>>)
    /\ UNCHANGED <<gui, config, first, exit_status, processes, descendants, build_results,
                   test_results, deploy_results, report, saved>>

\* the worker ends with pipeline_complete(status)
GuiThreadEnds(status) ==
    /\ gui' = worker_complete(gui, status)
    /\ UNCHANGED <<report, saved>>
    /\ pc' = "Completed"
    /\ trace' = Append(trace, ReturnEvent)
    /\ UNCHANGED <<stage_name, results, idx>>

\* _run_pipeline_thread after run_stage("Build") returned
GuiBuildReturns ==
    /\ StageReturns
    /\ stage_name = "Build"
    /\ build_results' = results
    /\ IF AnyFailed(results)
       THEN GuiThreadEnds("FAILED")
       ELSE /\ EnterStage("Test", <<ReturnEvent>>)
            /\ UNCHANGED <<gui, report, saved>>
    /\ UNCHANGED <<config, first, exit_status, processes, descendants, test_results,
                   deploy_results>>

\* _run_pipeline_thread after run_stage("Test") returned
GuiTestReturns ==
    /\ StageReturns
    /\ stage_name = "Test"
    /\ test_results' = results
    /\ IF AnyFailed(results)
       THEN GuiThreadEnds("FAILED")
       ELSE /\ EnterStage("Deploy", <<ReturnEvent>>)
            /\ UNCHANGED <<gui, report, saved>>
    /\ UNCHANGED <<config, first, exit_status, processes, descendants, build_results,
                   deploy_results>>

\* _run_pipeline_thread after run_stage("Deploy") returned
GuiDeployReturns ==
    /\ StageReturns
    /\ stage_name = "Deploy"
    /\ deploy_results' = results
    /\ GuiThreadEnds(IF AnyFailed(results) THEN "FAILED" ELSE "SUCCESS")
    /\ UNCHANGED <<config, first, exit_status, processes, descendants, build_results,
                   test_results>>

GuiNext ==
    \/ GuiRunPipeline
    \/ GuiRunCustomPipeline
    \/ GuiOtherThreadEnds
    \/ GuiStopPipeline
    \/ GuiThreadStarts
    \/ PopenFails
    \/ PopenStarts
    \/ CommunicateReturns
    \/ CommunicateTimesOut
    \/ DrainReturns
    \/ CommunicateRaises
    \/ DescendantExits
    \/ GuiBuildReturns
    \/ GuiTestReturns
    \/ GuiDeployReturns

GuiSpec == GuiInit /\ [][GuiNext]_vars

\* ------------------------------------------------- run_pipeline, twice
\* run_pipeline is called a second time on the same CIPipeline object, and
\* each command is given the outcome it had in the first run.

DetInit ==
    /\ config \in [project_name : {"MyProject"},
                   build_commands : CommandLists(MaxDetCmds),
                   test_commands : CommandLists(1),
                   deployment_commands : CommandLists(1)]
    /\ pc = "NotStarted"
    /\ stage_name = "Build"
    /\ results = <<>>
    /\ idx = 0
    /\ processes = {}
    /\ build_results = <<>>
    /\ test_results = <<>>
    /\ deploy_results = <<>>
    /\ report = NoReport
    /\ trace = <<>>
    /\ descendants = {}
    /\ gui = NoGui
    /\ saved = NoReport
    /\ exit_status = <<>>
    /\ first = NoRun

\* the second run starts at the Test stage
RunAgainMut ==
    /\ pc = "Completed"
    /\ first = NoRun
    /\ first' = [done |-> TRUE, trace |-> trace, build |-> build_results,
                 test |-> test_results, deploy |-> deploy_results,
                 summary |-> report.summary]
    /\ stage_name' = "Test"
    /\ results' = <<>>
    /\ idx' = 0
    /\ pc' = "loop"
    /\ trace' = <<Event("stage", "Test", 0)>>
    /\ build_results' = <<>>
    /\ test_results' = <<>>
    /\ deploy_results' = <<>>
    /\ processes' = {}
    /\ descendants' = {}
    /\ UNCHANGED <<gui, config, exit_status, report, saved>>

\* the caller calls run_pipeline again: its locals start afresh; what the
\* first run left running is not followed any further
RunAgain ==
    /\ pc = "Completed"
    /\ first = NoRun
    /\ first' = [done |-> TRUE, trace |-> trace, build |-> build_results,
                 test |-> test_results, deploy |-> deploy_results,
                 summary |-> report.summary]
    /\ stage_name' = "Build"
    /\ results' = <<>>
    /\ idx' = 0
    /\ pc' = "loop"
    /\ trace' = <<Event("stage", "Build", 0)>>
    /\ build_results' = <<>>
    /\ test_results' = <<>>
    /\ deploy_results' = <<>>
    /\ processes' = {}
    /\ descendants' = {}
    /\ UNCHANGED <<gui, config, exit_status, report, saved>>

\* the result the first run got for the command the second run is at
SameOutcome ==
    (first.done /\ Len(results') > Len(results)) =>
        LET earlier == CASE stage_name = "Build"  -> first.build
                         [] stage_name = "Test"   -> first.test
                         [] stage_name = "Deploy" -> first.deploy
        IN  Len(results') <= Len(earlier) =>
                results'[Len(results')] = earlier[Len(results')]

\* run_command returning a result, with the outcome of the first run
DetPopenFails == PopenFails /\ SameOutcome

DetCommunicateReturns == CommunicateReturns /\ SameOutcome

DetDrainReturns == DrainReturns /\ SameOutcome

DetCommunicateRaises == CommunicateRaises /\ SameOutcome

DetNext ==
    \/ StartPipeline
    \/ DetPopenFails
    \/ PopenStarts
    \/ DetCommunicateReturns
    \/ CommunicateTimesOut
    \/ DetDrainReturns
    \/ DetCommunicateRaises
    \/ DescendantExits
    \/ BuildReturns
    \/ TestReturns
    \/ DeployReturns
    \/ GenerateReport
    \/ FinishPipeline
    \/ RunAgain

DetSpec == DetInit /\ [][DetNext]_vars

\* ------------------------------------------------- format_stage_results
\* format_stage_results applied to result lists whose texts are shorter
\* than, as long as and longer than the limit, then applied once more to
\* the texts it produced.

\* a text of n characters, no two neighbours alike
Text(n) == [i \in 1..n |-> Digit(i % 10)]

TextLengths ==
    {0, 1, TruncateLimit - 1, TruncateLimit, TruncateLimit + 1,
     TruncateLimit + MaxOver}

FmtResults ==
    {PipelineResult(status, 0, Text(n), error, 0) :
        status \in {"SUCCESS", "FAILED"}, n \in TextLengths,
        error \in {None} \cup {Some(Text(m)) : m \in TextLengths}}

FmtInit ==
    /\ config = [project_name |-> "MyProject", build_commands |-> <<>>,
                 test_commands |-> <<>>, deployment_commands |-> <<>>]
    /\ pc = "format"
    /\ stage_name = "Build"
    /\ results \in UNION {[1..n -> FmtResults] : n \in 0..MaxFmtResults}
    /\ idx = 0
    /\ processes = {}
    /\ build_results = <<>>
    /\ test_results = <<>>
    /\ deploy_results = <<>>
    /\ report = NoReport
    /\ trace = <<>>
    /\ descendants = {}
    /\ gui = NoGui
    /\ saved = NoReport
    /\ exit_status = <<>>
    /\ first = NoRun

\* the formatted records taken as results again
Reformatted(records) ==
    [i \in 1..Len(records) |->
        PipelineResult(results[i].status, records[i].duration,
                       records[i].output, records[i].error,
                       records[i].exit_code)]

\* format_stage_results(results)
FormatResults ==
    /\ pc = "format"
    /\ report' = [report EXCEPT !.stages.build = format_stage_results(results)]
    /\ pc' = "formatted"
    /\ UNCHANGED <<gui, config, first, exit_status, stage_name, results, idx, processes,
                   descendants, build_results, test_results, deploy_results,
                   trace, saved>>

\* format_stage_results applied to what it returned
FormatAgain ==
    /\ pc = "formatted"
    /\ report' = [report EXCEPT !.stages.test =
                     format_stage_results(Reformatted(report.stages.build))]
    /\ pc' = "reformatted"
    /\ UNCHANGED <<gui, config, first, exit_status, stage_name, results, idx, processes,
                   descendants, build_results, test_results, deploy_results,
                   trace, saved>>

FmtNext ==
    \/ FormatResults
    \/ FormatAgain

FmtSpec == FmtInit /\ [][FmtNext]_vars

\* ------------------------------------------------- history and helpers
StageRank(stage) ==
    CASE stage = "Build" -> 1 [] stage = "Test" -> 2 [] stage = "Deploy" -> 3

\* positions of the trace holding an event of the given kind and stage
Positions(ev, stage) ==
    {p \in 1..Len(trace) : trace[p].ev = ev /\ trace[p].stage = stage}

\* the commands of a stage that run_command was called for are exactly
\* commands 1..k, called in that order
CalledInOrder(stage, k) ==
    /\ {trace[p].idx : p \in Positions("call", stage)} = 1..k
    /\ \A p, q \in Positions("call", stage) :
          p < q => trace[p].idx < trace[q].idx

\* the result list of a stage as far as it exists: the list run_stage is
\* building or has just returned, else the one run_pipeline stored
ResultsOf(stage) ==
    IF pc # "NotStarted" /\ stage_name = stage THEN results
    ELSE CASE stage = "Build"  -> build_results
           [] stage = "Test"   -> test_results
           [] stage = "Deploy" -> deploy_results

Returned == pc \in {"report", "save", "Completed"}

\* the list run_pipeline stored for a stage
Stored(stage) ==
    CASE stage = "Build"  -> build_results
      [] stage = "Test"   -> test_results
      [] stage = "Deploy" -> deploy_results

HasFailed(rs) == \E i \in DOMAIN rs : rs[i].status = "FAILED"

AllResults == build_results \o test_results \o deploy_results

ConfiguredCount ==
    Len(config.build_commands) + Len(config.test_commands)
      + Len(config.deployment_commands)

RECURSIVE DurationUpTo(_, _)
DurationUpTo(rs, n) ==
    IF n = 0 THEN 0 ELSE DurationUpTo(rs, n - 1) + rs[n].duration

CountStatus(rs, status) ==
    Cardinality({i \in DOMAIN rs : rs[i].status = status})

\* ------------------------------------------------------------------ claims

\* C1: run_stage is fail-fast.  If the result at position k of a stage's
\* result list is FAILED, the list has exactly k elements (the failing one
\* is the last), they are the results of commands 1..k in order, and
\* run_command was called for no command after position k.
C1_FailFast ==
    \A s \in Stages :
      LET rs == ResultsOf(s) IN
        \A k \in DOMAIN rs :
          rs[k].status = "FAILED" =>
            /\ Len(rs) = k
            /\ CalledInOrder(s, k)
            /\ {trace[p].idx : p \in Positions("result", s)} = 1..k

\* a stage stopped at a failing first command with a second one configured
C1_Witness ==
    /\ pc = "return"
    /\ Len(results) = 1
    /\ results[1].status = "FAILED"
    /\ Len(StageCommands(stage_name)) = 2

\* C2: once the stages have run, a FAILED result in the Build result set
\* means the Test and Deploy result sets are empty and no Test or Deploy
\* stage was entered or command called, whatever those lists hold.
C2_BuildFailureSkipsTestAndDeploy ==
    (Returned /\ HasFailed(build_results)) =>
        /\ test_results = <<>>
        /\ deploy_results = <<>>
        /\ \A p \in DOMAIN trace : trace[p].stage = "Build"

\* a completed run whose Build failed although Test and Deploy commands exist
C2_Witness ==
    /\ pc = "Completed"
    /\ HasFailed(build_results)
    /\ config.test_commands # <<>>
    /\ config.deployment_commands # <<>>

\* C3: once the stages have run, if Build has no FAILED result and Test has
\* one, the Deploy result set is empty and no deployment command was called.
C3_TestFailureSkipsDeploy ==
    (Returned /\ ~HasFailed(build_results) /\ HasFailed(test_results)) =>
        /\ deploy_results = <<>>
        /\ \A p \in DOMAIN trace : trace[p].stage # "Deploy"

\* a completed run whose Test stage failed by timeout, with Deploy configured
C3_Witness ==
    /\ pc = "Completed"
    /\ ~HasFailed(build_results)
    /\ config.build_commands # <<>>
    /\ test_results # <<>>
    /\ test_results[Len(test_results)].status = "FAILED"
    /\ test_results[Len(test_results)].exit_code = -1
    /\ test_results[Len(test_results)].output # <<>>
    /\ config.deployment_commands # <<>>

\* C4: stage ordering.  A Test command is called only after every Build
\* command produced a result that is not FAILED, a Deploy command only after
\* every Test command did; the stages are entered in the order Build, Test,
\* Deploy, each at most once, and no event of an earlier stage follows an
\* event of a later one.
C4_StageOrdering ==
    /\ Positions("call", "Test") # {} =>
          /\ Len(build_results) = Len(config.build_commands)
          /\ ~HasFailed(build_results)
          /\ \A p \in Positions("result", "Build"), q \in Positions("call", "Test") : p < q
          /\ Cardinality(Positions("result", "Build")) = Len(config.build_commands)
    /\ Positions("call", "Deploy") # {} =>
          /\ Len(test_results) = Len(config.test_commands)
          /\ ~HasFailed(test_results)
          /\ \A p \in Positions("result", "Test"), q \in Positions("call", "Deploy") : p < q
          /\ Cardinality(Positions("result", "Test")) = Len(config.test_commands)
    /\ \A s \in Stages : Cardinality(Positions("stage", s)) <= 1
    /\ \A p \in 1..(Len(trace) - 1) :
          StageRank(trace[p].stage) <= StageRank(trace[p + 1].stage)
    /\ \A p \in DOMAIN trace :
          trace[p].ev # "stage" =>
             \E q \in Positions("stage", trace[p].stage) : q < p
    /\ trace # <<>> => trace[1] = Event("stage", "Build", 0)

\* the first Deploy command is in flight after two Build and two Test commands
C4_Witness ==
    /\ pc = "communicate"
    /\ stage_name = "Deploy"
    /\ Positions("call", "Deploy") # {}
    /\ Len(build_results) = 2
    /\ Len(test_results) = 2

\* C5: run_pipeline is total: every run eventually reaches Completed.
C5_Terminates == <>(pc = "Completed")

\* C6: in every report, summary.status is FAILED exactly when some result of
\* the three result sets is FAILED, and SUCCESS exactly when
\* summary.failed_stages is 0.
C6_StatusIffFailure ==
    pc = "Completed" =>
        /\ report.summary.status \in {"SUCCESS", "FAILED"}
        /\ report.summary.status = "FAILED" <=>
              (HasFailed(build_results) \/ HasFailed(test_results)
                 \/ HasFailed(deploy_results))
        /\ report.summary.status = "SUCCESS" <=>
              report.summary.failed_stages = 0

\* a FAILED report that also holds successful results
C6_Witness ==
    /\ pc = "Completed"
    /\ report.summary.status = "FAILED"
    /\ report.summary.failed_stages = 1
    /\ report.summary.successful_stages >= 2

\* C7: summary.total_duration is the sum of the durations of exactly the
\* results present in the three result sets; a configured command that was
\* skipped has no result and adds nothing.
C7_TotalDuration ==
    pc = "Completed" =>
        report.summary.total_duration =
            DurationUpTo(build_results, Len(build_results))
              + DurationUpTo(test_results, Len(test_results))
              + DurationUpTo(deploy_results, Len(deploy_results))

\* a report over several results of non-zero duration with commands skipped
C7_Witness ==
    /\ pc = "Completed"
    /\ Len(AllResults) >= 2
    /\ Len(AllResults) < ConfiguredCount
    /\ AllResults[1].duration > 0
    /\ AllResults[Len(AllResults)].duration > 0
    /\ report.summary.total_duration >= 2

\* C8: summary.total_stages is the number of results in the three sets,
\* successful_stages the number of SUCCESS ones and failed_stages the number
\* of FAILED ones; when no result is FAILED, total_stages is the number of
\* configured commands and failed_stages is 0.
C8_SummaryCounts ==
    pc = "Completed" =>
        /\ report.summary.total_stages =
              Len(build_results) + Len(test_results) + Len(deploy_results)
        /\ report.summary.successful_stages =
              CountStatus(build_results, "SUCCESS")
                + CountStatus(test_results, "SUCCESS")
                + CountStatus(deploy_results, "SUCCESS")
        /\ report.summary.failed_stages =
              CountStatus(build_results, "FAILED")
                + CountStatus(test_results, "FAILED")
                + CountStatus(deploy_results, "FAILED")
        /\ ~HasFailed(AllResults) =>
              /\ report.summary.total_stages = ConfiguredCount
              /\ report.summary.failed_stages = 0

\* an all-success run over one command per stage: total_stages is 3
C8_Witness ==
    /\ pc = "Completed"
    /\ Len(config.build_commands) = 1
    /\ Len(config.test_commands) = 1
    /\ Len(config.deployment_commands) = 1
    /\ report.summary.status = "SUCCESS"
    /\ report.summary.total_stages = 3

\* C9: the list run_stage returns is never longer than the command list; it
\* holds one result per command, in order, when every command succeeds; it
\* is strictly shorter than the command list exactly when a command other
\* than the last one failed.
C9_StageResultLength ==
    /\ pc # "NotStarted" => Len(results) <= Len(StageCommands(stage_name))
    /\ \A s \in Stages :
        Positions("return", s) # {} =>
          LET rs == Stored(s)
              n == Len(StageCommands(s))
          IN
            /\ \A p \in Positions("return", s) : trace[p].idx = Len(rs)
            /\ Len(rs) <= n
            /\ (\A i \in DOMAIN rs : rs[i].status = "SUCCESS") =>
                  /\ Len(rs) = n
                  /\ CalledInOrder(s, n)
            /\ Len(rs) < n <=>
                  \E k \in 1..(n - 1) :
                      k <= Len(rs) /\ rs[k].status = "FAILED"

\* a stage returned a full-length list whose last result is the failure
C9_Witness ==
    /\ Positions("return", "Test") # {}
    /\ Len(config.test_commands) = 2
    /\ Len(test_results) = 2
    /\ test_results[1].status = "SUCCESS"
    /\ test_results[2].status = "FAILED"

\* C10: commands run one at a time in configured order.  At most one
\* launched process exists at any time, every call of run_command is
\* directly followed in the history by its own result before any other
\* call, and within a stage the calls are for commands 1, 2, ... in order.
C10_OneAtATime ==
    /\ Cardinality(processes) <= 1
    /\ \A p \in DOMAIN trace :
          (trace[p].ev = "call" /\ p < Len(trace)) =>
              trace[p + 1] = Event("result", trace[p].stage, trace[p].idx)
    /\ \A p \in DOMAIN trace :
          (trace[p].ev = "call" /\ p = Len(trace)) =>
              /\ pc \in {"communicate", "drain"}
              /\ processes # {}
    /\ \A s \in Stages :
          CalledInOrder(s, Cardinality(Positions("call", s)))

\* the second command of a stage is in flight after the first one returned
C10_Witness ==
    /\ pc = "communicate"
    /\ idx = 1
    /\ Cardinality(processes) = 1
    /\ Len(results) = 1

\* the command list the configuration holds for a stage
Configured(stage) ==
    CASE stage = "Build"  -> config.build_commands
      [] stage = "Test"   -> config.test_commands
      [] stage = "Deploy" -> config.deployment_commands

\* C11: an empty command list is tolerated for any stage.  No command is
\* called for a stage whose configured list is empty and its result list is
\* empty, also when run_stage returns it; when the empty stage is Build the
\* Test stage is entered as Build returns, and when it is Test the Deploy
\* stage is entered as Test returns; and a run whose three lists are all
\* empty completes with a report of status SUCCESS and total_stages 0.
C11_EmptyStagesTolerated ==
    /\ \A s \in Stages :
          Configured(s) = <<>> =>
              /\ Positions("call", s) = {}
              /\ ResultsOf(s) = <<>>
              /\ \A p \in Positions("return", s) : trace[p].idx = 0
    /\ (Configured("Build") = <<>> /\ Positions("return", "Build") # {}) =>
          Positions("stage", "Test") # {}
    /\ (Configured("Test") = <<>> /\ Positions("return", "Test") # {}) =>
          Positions("stage", "Deploy") # {}
    /\ (pc = "Completed" /\ ConfiguredCount = 0) =>
          /\ report.summary.status = "SUCCESS"
          /\ report.summary.total_stages = 0
          /\ report.summary.failed_stages = 0
          /\ report.stages.build = <<>>
          /\ report.stages.test = <<>>
          /\ report.stages.deploy = <<>>

\* a run with three empty lists has entered all three stages and completed
C11_Witness ==
    /\ pc = "Completed"
    /\ ConfiguredCount = 0
    /\ Positions("stage", "Test") # {}
    /\ Positions("stage", "Deploy") # {}
    /\ report.summary.status = "SUCCESS"

\* the process in flight exits on its own before the timeout of its command
ExitsBeforeTimeout ==
    /\ pc \in {"communicate", "drain"}
    /\ CurrentProcess.b.exits
    /\ CurrentProcess.b.elapsed < CurrentTimeout

\* C12: when the launched process exits on its own before the timeout, the
\* result run_command returns once it has reaped the process has status
\* SUCCESS for exit code 0 and FAILED otherwise, the exit code of the
\* process, and the captured standard output and standard error.
C12_OwnExitResult ==
    [][(/\ ExitsBeforeTimeout
        /\ pc' \notin {"communicate", "drain"}
        /\ processes' = processes \ {CurrentProcess}) =>
            LET b == CurrentProcess.b
                r == results'[Len(results')]
            IN /\ r.status = StatusOfExit(b.code)
               /\ r.exit_code = b.code
               /\ r.output = b.stdout
               /\ r.error = Some(b.stderr)]_vars

\* the process in flight has not exited when the timeout of its command
\* elapses
RunsIntoTimeout ==
    /\ pc \in {"communicate", "drain"}
    /\ ~(CurrentProcess.b.exits /\ CurrentProcess.b.elapsed < CurrentTimeout)

\* "Command timed out after "
TimedOutPrefix ==
    <<"C", "o", "m", "m", "a", "n", "d", " ", "t", "i", "m", "e", "d", " ",
      "o", "u", "t", " ", "a", "f", "t", "e", "r", " ">>

C14_LaunchFailureResult ==
    [][(pc = "loop" /\ Len(results') = Len(results) + 1) =>
            LET r == results'[Len(results')]
            IN /\ processes' = processes
               /\ r.status = "FAILED"
               /\ r.exit_code = -1
               /\ r.output = <<>>
               /\ r.error # None
               /\ r.error[1] # <<>>
               /\ pc' = "return"
               /\ trace'[Len(trace')] = Event("result", stage_name, idx + 1)]_vars

\* run_command has returned the result of a command that could not be
\* launched
C14_Witness ==
    /\ pc = "return"
    /\ processes = {}
    /\ results # <<>>
    /\ results[Len(results)].error = Some(LaunchError)
    /\ results[Len(results)].exit_code = -1

\* C15: no failure while running a command escapes as an exception: every
\* run of run_pipeline completes and yields a report, whose status is
\* SUCCESS or FAILED and which accounts for every result the stages
\* produced.
C15_AlwaysYieldsReport ==
    <>(/\ pc = "Completed"
       /\ report # NoReport
       /\ report.summary.status \in {"SUCCESS", "FAILED"}
       /\ report.summary.total_stages = Len(AllResults))

\* C16: on every exit path of run_command the launched process has
\* terminated and been waited on before the result is returned: outside a
\* call of run_command no launched process is left unreaped.
C16_NoProcessSurvives ==
    pc \notin {"communicate", "drain"} => processes = {}

\* C17: on timeout run_command terminates the launched process and every
\* descendant it started: when the timeout branch returns its result, no
\* process started by the command is left.
C17_DescendantsTerminated ==
    [][(pc = "drain" /\ pc' # "drain") =>
            /\ processes' = {}
            /\ descendants' = {}]_vars

\* C18: a Stop pressed while a run is in progress prevents every stage that
\* has not yet started from starting: no stage is entered after the point
\* of the history at which Stop was pressed.
C18_StopPreventsLaterStages ==
    gui.stopped =>
        \A p \in DOMAIN trace : trace[p].ev = "stage" => p <= gui.stop_at

\* the formatting rule as the claims state it: more than 500 characters
\* become the first 500 and "...", anything else is kept
Cut(text) ==
    IF Len(text) > 500 THEN SubSeq(text, 1, 500) \o <<".", ".", ".">>
    ELSE text

\* C19: format_stage_results truncates output and error independently.  In
\* each record the output is the result's output cut by the rule, whatever
\* the error is; the error is absent when the result's error is absent and
\* else the result's error cut by the rule, whatever the output is.
C19_TruncatesIndependently ==
    pc \in {"formatted", "reformatted"} =>
        /\ Len(report.stages.build) = Len(results)
        /\ \A i \in DOMAIN results :
              /\ report.stages.build[i].output = Cut(results[i].output)
              /\ results[i].error = None =>
                    report.stages.build[i].error = None
              /\ results[i].error # None =>
                    report.stages.build[i].error = Some(Cut(results[i].error[1]))

\* a result with a short output and a long error has been formatted
C19_Witness ==
    /\ pc = "formatted"
    /\ results # <<>>
    /\ Len(results[1].output) = 1
    /\ results[1].error # None
    /\ Len(results[1].error[1]) = 501
    /\ Len(report.stages.build[1].error[1]) = 503

\* C20: truncation is idempotent: formatting the formatted output and error
\* again returns them unchanged; and a 600-character text is formatted to
\* its first 500 characters followed by "...".
C20_Idempotent ==
    /\ pc = "reformatted" =>
          /\ Len(report.stages.test) = Len(report.stages.build)
          /\ \A i \in DOMAIN report.stages.build :
                /\ report.stages.test[i].output = report.stages.build[i].output
                /\ report.stages.test[i].error = report.stages.build[i].error
    /\ pc \in {"formatted", "reformatted"} =>
          \A i \in DOMAIN results :
              Len(results[i].output) = 600 =>
                  /\ Len(report.stages.build[i].output) = 503
                  /\ SubSeq(report.stages.build[i].output, 1, 500)
                        = SubSeq(results[i].output, 1, 500)
                  /\ SubSeq(report.stages.build[i].output, 501, 503)
                        = <<".", ".", ".">>

\* a 600-character output has been formatted twice
C20_Witness ==
    /\ pc = "reformatted"
    /\ results # <<>>
    /\ Len(results[1].output) = 600
    /\ Len(report.stages.test[1].output) = 503

\* every result run_command has returned in this run
ProducedResults ==
    {results[i] : i \in DOMAIN results}
      \cup {build_results[i] : i \in DOMAIN build_results}
      \cup {test_results[i] : i \in DOMAIN test_results}
      \cup {deploy_results[i] : i \in DOMAIN deploy_results}

\* C21: every FAILED result of run_command has an error that is not absent
\* or an exit code other than 0, and every SUCCESS result has exit code 0.
C21_FailedHasCause ==
    \A r \in ProducedResults :
        /\ r.status \in {"SUCCESS", "FAILED"}
        /\ r.status = "FAILED" => (r.error # None \/ r.exit_code # 0)
        /\ r.status = "SUCCESS" => r.exit_code = 0

\* a stage holds a SUCCESS result followed by a FAILED one
C21_Witness ==
    /\ Len(results) = 2
    /\ results[1].status = "SUCCESS"
    /\ results[2].status = "FAILED"
    /\ results[2].exit_code = 1

\* C22: exit code -1 is reserved for a timeout and a failed launch: a result
\* returned for a process that completed on its own, communicate having
\* returned within the timeout, never has exit code -1.
C22_SentinelReserved ==
    [][(/\ pc = "communicate"
        /\ pc' \notin {"communicate", "drain"}
        /\ processes' = processes \ {CurrentProcess}) =>
            results'[Len(results')].exit_code # -1]_vars

\* C23: a report that could not be written to its file is returned all the
\* same: the step of save_report that leaves the file without the report
\* leaves the report as generate_report made it, its status FAILED exactly
\* when a result is FAILED, and run_pipeline returns it.
C23_SaveFailureKeepsReport ==
    [][(pc = "save" /\ pc' # "save" /\ saved' # report) =>
            /\ pc' = "Completed"
            /\ report' = report
            /\ report'.summary.status =
                  IF HasFailed(AllResults) THEN "FAILED" ELSE "SUCCESS"]_vars

\* run_pipeline has returned a SUCCESS report that was not saved
C23_Witness ==
    /\ pc = "Completed"
    /\ saved = NoReport
    /\ AllResults # <<>>
    /\ report.summary.status = "SUCCESS"

\* C24: main exits with code 0 exactly when the status of the report is
\* SUCCESS, and with a code other than 0 for every other status.
C24_ExitCodeIffSuccess ==
    exit_status # <<>> =>
        /\ pc = "Completed"
        /\ exit_status[1] = 0 <=> report.summary.status = "SUCCESS"
        /\ exit_status[1] # 0 <=> report.summary.status # "SUCCESS"

\* main has exited after a run with a failed command
C24_Witness ==
    /\ exit_status = <<1>>
    /\ report.summary.status = "FAILED"
    /\ report.summary.failed_stages = 1

\* C25: generate_report is a pure aggregation: the step that generates the
\* report calls no command, starts and ends no process, writes no file and
\* leaves the three result lists as they were.
C25_GenerateReportPure ==
    [][(pc = "report" /\ pc' # "report") =>
            /\ build_results' = build_results
            /\ test_results' = test_results
            /\ deploy_results' = deploy_results
            /\ results' = results
            /\ trace' = trace
            /\ processes' = processes
            /\ descendants' = descendants
            /\ saved' = saved
            /\ config' = config]_vars

\* the report of a run with results has been generated and not yet saved
C25_Witness ==
    /\ pc = "save"
    /\ Len(AllResults) >= 2
    /\ report.summary.total_stages = Len(AllResults)
    /\ saved = NoReport

\* report.stages[...] for a stage
StageRecords(stage) ==
    CASE stage = "Build"  -> report.stages.build
      [] stage = "Test"   -> report.stages.test
      [] stage = "Deploy" -> report.stages.deploy

\* C26: the report's stage records preserve order: each stage has one
\* record per result of that stage, the i-th record has step i and the
\* status, duration and exit code of the i-th result, and a stage that was
\* skipped has no record.
C26_RecordsInOrder ==
    pc \in {"save", "Completed"} =>
        \A s \in Stages :
            /\ Len(StageRecords(s)) = Len(Stored(s))
            /\ \A i \in DOMAIN Stored(s) :
                  /\ StageRecords(s)[i].step = i
                  /\ StageRecords(s)[i].status
                        = (IF Stored(s)[i].status = "SUCCESS" THEN "success"
                           ELSE "failed")
                  /\ StageRecords(s)[i].duration = Stored(s)[i].duration
                  /\ StageRecords(s)[i].exit_code = Stored(s)[i].exit_code
            /\ Positions("stage", s) = {} => StageRecords(s) = <<>>

\* a report with two Build records of different results and Deploy skipped
C26_Witness ==
    /\ pc = "Completed"
    /\ Len(report.stages.build) = 2
    /\ report.stages.build[1].duration # report.stages.build[2].duration
    /\ Positions("stage", "Test") # {}
    /\ Positions("stage", "Deploy") = {}
    /\ report.stages.deploy = <<>>

\* C28: in the window at most one pipeline worker thread is alive at any
\* time: a Run or Run Custom Pipeline request made while a worker is alive
\* starts no second one.
C28_OneWorker == LiveWorkers <= 1

\* C29: pipeline_complete is invoked exactly once for each run: it is never
\* invoked more often than runs were started, so a run completed as
\* CANCELLED by Stop is not completed again when its worker finishes.
C29_CompletedOnce == Len(gui.completions) <= gui.runs

\* C30: the report made at the end of a window run describes the results
\* of that run: once the worker of the only run started has ended, not
\* stopped, total_stages is the number of commands executed, failed_stages
\* the number that failed, and the status is FAILED exactly when
\* failed_stages is above 0.
C30_GuiReportDescribesRun ==
    (pc = "Completed" /\ gui.runs = 1 /\ ~gui.stopped) =>
        /\ report.summary.total_stages = Len(AllResults)
        /\ report.summary.failed_stages = CountStatus(AllResults, "FAILED")
        /\ report.summary.status = "FAILED"
              <=> report.summary.failed_stages > 0

C32_TwoStatuses ==
    /\ \A r \in ProducedResults :
          /\ r.status \in PipelineStatus
          /\ r.status \notin {"PENDING", "RUNNING", "CANCELLED"}
    /\ pc \in {"save", "Completed"} =>
          /\ report.summary.total_stages = Len(AllResults)
          /\ report.summary.total_stages =
                report.summary.successful_stages + report.summary.failed_stages

\* a report counts a successful and a failed result, the failed one of a
\* process ended by a signal
C32_Witness ==
    /\ pc = "Completed"
    /\ report.summary.successful_stages >= 1
    /\ report.summary.failed_stages = 1
    /\ \E r \in ProducedResults : r.status = "FAILED" /\ r.exit_code < 0
                                    /\ r.duration = 0 /\ r.output # <<>>

\* ------------------------------- run_pipeline, then the window's worker
\* The core run_pipeline runs to its end; then the Run button of a window
\* holding the same pipeline is pressed and _run_pipeline_thread runs, each
\* command being given the outcome it had under run_pipeline.

\* CIPipelineGUI.run_pipeline on the pipeline that has just been run: the
\* first run is kept for comparison and the worker's locals start afresh
RunInWindow ==
    /\ pc = "Completed"
    /\ first = NoRun
    /\ ~gui.is_running
    /\ first' = [done |-> TRUE, trace |-> trace, build |-> build_results,
                 test |-> test_results, deploy |-> deploy_results,
                 summary |-> report.summary]
    /\ gui' = [gui EXCEPT !.is_running = TRUE,
                          !.run_button = "disabled",
                          !.stop_button = "normal",
                          !.runs = @ + 1]
    /\ pc' = "thread"
    /\ stage_name' = "Build"
    /\ results' = <<>>
    /\ idx' = 0
    /\ trace' = <<>>
    /\ build_results' = <<>>
    /\ test_results' = <<>>
    /\ deploy_results' = <<>>
    /\ processes' = {}
    /\ descendants' = {}
    /\ UNCHANGED <<config, exit_status, report, saved>>

\* run_pipeline after a run_stage returned
CoreBuildReturns == first = NoRun /\ BuildReturns

CoreTestReturns == first = NoRun /\ TestReturns

CoreDeployReturns == first = NoRun /\ DeployReturns

\* _run_pipeline_thread after a run_stage returned
WorkerBuildReturns == first.done /\ GuiBuildReturns

WorkerTestReturns == first.done /\ GuiTestReturns

WorkerDeployReturns == first.done /\ GuiDeployReturns

EquivNext ==
    \/ StartPipeline
    \/ DetPopenFails
    \/ PopenStarts
    \/ DetCommunicateReturns
    \/ CommunicateTimesOut
    \/ DetDrainReturns
    \/ DetCommunicateRaises
    \/ DescendantExits
    \/ CoreBuildReturns
    \/ CoreTestReturns
    \/ CoreDeployReturns
    \/ GenerateReport
    \/ FinishPipeline
    \/ RunInWindow
    \/ GuiThreadStarts
    \/ WorkerBuildReturns
    \/ WorkerTestReturns
    \/ WorkerDeployReturns

EquivSpec == DetInit /\ [][EquivNext]_vars

\* the status of the last pipeline_complete call, the one the window shows
ShownStatus ==
    IF gui.completions = <<>> THEN "NONE"
    ELSE gui.completions[Len(gui.completions)]

\* C31: for the same configuration and the same command outcomes the
\* window's worker _run_pipeline_thread enters the stages and calls the
\* commands in the order run_pipeline did, skips what run_pipeline skipped
\* after a failed Build or Test, collects the same results, and ends with
\* the overall status (SUCCESS or FAILED) run_pipeline reported.
C31_WorkerMatchesCore ==
    first.done =>
        /\ Len(trace) <= Len(first.trace)
        /\ \A i \in 1..Len(trace) : trace[i] = first.trace[i]
        /\ pc = "Completed" =>
              /\ trace = first.trace
              /\ build_results = first.build
              /\ test_results = first.test
              /\ deploy_results = first.deploy
              /\ first.summary.status \in {"SUCCESS", "FAILED"}
              /\ ShownStatus = first.summary.status

\* the part of C31 about the stages alone: same events in the same order
\* and the same results, whatever status is shown at the end
C31_SameStages ==
    first.done =>
        /\ Len(trace) <= Len(first.trace)
        /\ \A i \in 1..Len(trace) : trace[i] = first.trace[i]
        /\ pc = "Completed" =>
              /\ trace = first.trace
              /\ build_results = first.build
              /\ test_results = first.test
              /\ deploy_results = first.deploy

\* the part of C31 that fails: run_pipeline reported SUCCESS and the worker
\* ended showing FAILED
C31_SuccessShownFailed ==
    /\ first.done
    /\ pc = "Completed"
    /\ first.summary.status = "SUCCESS"
    /\ ShownStatus = "FAILED"
    /\ gui.completions = <<"SUCCESS", "FAILED">>

\* --------------------------------------------- the custom pipeline worker
\* Run Custom Pipeline followed command by command: the worker started by
\* run_custom_pipeline_thread runs the lines of the custom script, then the
\* stages whose command list is not empty.  While the script runs,
\* stage_name is "Script" and results holds the result of each line run.

ScriptTexts ==
    UNION {[1..n -> {<<" ">>, <<"c">>}] : n \in 0..MaxScriptLines}

CustomInit ==
    /\ config \in [project_name : {"MyCustomProject"},
                   custom_script : ScriptTexts,
                   build_commands : CommandLists(MaxCustomCmds),
                   test_commands : CommandLists(1),
                   deployment_commands : CommandLists(1)]
    /\ pc = "NotStarted"
    /\ stage_name = "Script"
    /\ results = <<>>
    /\ idx = 0
    /\ processes = {}
    /\ build_results = <<>>
    /\ test_results = <<>>
    /\ deploy_results = <<>>
    /\ report = NoReport
    /\ trace = <<>>
    /\ descendants = {}
    /\ gui = NoGui
    /\ saved = NoReport
    /\ exit_status = <<>>
    /\ first = NoRun

\* run_custom_pipeline: the button starts the worker thread
CustomRun ==
    /\ pc = "NotStarted"
    /\ pc' = "thread"
    /\ gui' = [gui EXCEPT !.runs = @ + 1]
    /\ UNCHANGED <<config, first, exit_status, stage_name, results, idx,
                   processes, descendants, build_results, test_results,
                   deploy_results, report, saved, trace>>

\* the worker starts with the loop over the lines of the custom script
CustomThreadStarts ==
    /\ pc = "thread"
    /\ stage_name' = "Script"
    /\ results' = <<>>
    /\ idx' = 0
    /\ pc' = "loop"
    /\ UNCHANGED <<gui, config, first, exit_status, processes, descendants,
                   build_results, test_results, deploy_results, report, saved,
                   trace>>

\* every stage after the given one is run, its list empty or not
NextStageMut(rank) ==
    LET later == {s \in Stages : StageRank(s) > rank}
    IN  IF later = {} THEN "none"
        ELSE CHOOSE s \in later : \A t \in later : StageRank(s) <= StageRank(t)

\* `for stage_name, commands in stages: if commands:` the next stage, in
\* the order Build, Test, Deploy, whose command list is not empty
NextStage(rank) ==
    LET later == {s \in Stages : StageRank(s) > rank /\ StageCommands(s) # <<>>}
    IN  IF later = {} THEN "none"
        ELSE CHOOSE s \in later : \A t \in later : StageRank(s) <= StageRank(t)

\* the worker ends with pipeline_complete(status)
CustomThreadEnds(status) ==
    /\ gui' = worker_complete(gui, status)
    /\ pc' = "Completed"
    /\ UNCHANGED <<stage_name, results, idx, trace>>

\* the worker goes on after the script or a stage without a FAILED result:
\* run_stage for the next stage that has commands, SUCCESS if there is none
CustomGoesOn(rank) ==
    IF NextStage(rank) = "none"
    THEN CustomThreadEnds("SUCCESS")
    ELSE /\ EnterStage(NextStage(rank), <<>>)
         /\ UNCHANGED gui

\* the loop over the script lines is left: by the return after a FAILED
\* line, or at its end
CustomScriptReturns ==
    /\ StageReturns
    /\ stage_name = "Script"
    /\ IF AnyFailed(results)
       THEN CustomThreadEnds("FAILED")
       ELSE CustomGoesOn(0)
    /\ UNCHANGED <<config, first, exit_status, processes, descendants,
                   build_results, test_results, deploy_results, report, saved>>

\* run_stage returned to the loop over the stages
CustomStageReturns ==
    /\ StageReturns
    /\ stage_name \in Stages
    /\ build_results' = IF stage_name = "Build" THEN results ELSE build_results
    /\ test_results' = IF stage_name = "Test" THEN results ELSE test_results
    /\ deploy_results' = IF stage_name = "Deploy" THEN results ELSE deploy_results
    /\ IF AnyFailed(results)
       THEN CustomThreadEnds("FAILED")
       ELSE CustomGoesOn(StageRank(stage_name))
    /\ UNCHANGED <<config, first, exit_status, processes, descendants,
                   report, saved>>

CustomNext ==
    \/ CustomRun
    \/ CustomThreadStarts
    \/ PopenFails
    \/ PopenStarts
    \/ CommunicateReturns
    \/ CommunicateTimesOut
    \/ DrainReturns
    \/ CommunicateRaises
    \/ DescendantExits
    \/ CustomScriptReturns
    \/ CustomStageReturns

CustomSpec == CustomInit /\ [][CustomNext]_vars

\* the number of lines of the custom script that are not blank
NonBlankCount ==
    Cardinality({i \in DOMAIN config.custom_script :
                    \E j \in DOMAIN config.custom_script[i] :
                        config.custom_script[i][j] # " "})

\* positions of the trace holding an event of a stage
StagePositions == {p \in DOMAIN trace : trace[p].stage \in Stages}

\* the results of the script lines run: none is kept once a stage runs, and
\* a stage runs only after every line succeeded
ScriptFailed == stage_name = "Script" /\ HasFailed(results)

\* the result list of a stage as far as the custom worker has it
CustomResultsOf(stage) ==
    IF stage_name = stage THEN results ELSE Stored(stage)

\* C33: in a custom pipeline run the non-blank lines of the custom script
\* are run one by one in order before any stage command; after a line that
\* failed no later line and no stage command is run and the run completes
\* as FAILED; then the stages run in the order Build, Test, Deploy, a stage
\* with an empty list is skipped, and the first stage with a FAILED result
\* ends the run as FAILED without a later stage being started.
C33_CustomRunOrder ==
    LET calls == Cardinality(Positions("call", "Script")) IN
    /\ calls <= NonBlankCount
    /\ CalledInOrder("Script", calls)
    /\ \A p \in Positions("call", "Script"), q \in StagePositions : p < q
    /\ StagePositions # {} =>
          /\ calls = NonBlankCount
          /\ Cardinality(Positions("result", "Script")) = NonBlankCount
    /\ ScriptFailed =>
          /\ results[Len(results)].status = "FAILED"
          /\ \A i \in 1..(Len(results) - 1) : results[i].status = "SUCCESS"
          /\ calls = Len(results)
          /\ StagePositions = {}
          /\ pc \in {"return", "Completed"}
          /\ pc = "Completed" => gui.completions = <<"FAILED", "FAILED">>
    /\ \A s \in Stages :
          /\ Cardinality(Positions("stage", s)) <= 1
          /\ Positions("stage", s) = {} => Positions("call", s) = {}
          /\ Positions("stage", s) # {} =>
                /\ Configured(s) # <<>>
                /\ \A t \in Stages :
                      /\ StageRank(t) < StageRank(s) =>
                            /\ \A p \in Positions("stage", s), q \in DOMAIN trace :
                                  trace[q].stage = t => q < p
                            /\ Configured(t) # <<>> =>
                                  /\ Positions("stage", t) # {}
                                  /\ Len(Stored(t)) = Len(Configured(t))
                                  /\ ~HasFailed(Stored(t))
          /\ HasFailed(CustomResultsOf(s)) =>
                /\ \A t \in Stages :
                      StageRank(t) > StageRank(s) => Positions("stage", t) = {}
                /\ pc \in {"return", "Completed"}
                /\ pc = "Completed" => gui.completions = <<"FAILED", "FAILED">>
    /\ pc = "Completed" =>
          \/ ScriptFailed
          \/ \E s \in Stages : HasFailed(CustomResultsOf(s))
          \/ /\ calls = NonBlankCount
             /\ \A s \in Stages :
                   Configured(s) # <<>> => Len(Stored(s)) = Len(Configured(s))

\* a script of a blank and a command line ran, Build was skipped for its
\* empty list, Test failed and the run ended FAILED without Deploy, which
\* has a command
C33_Witness ==
    /\ pc = "Completed"
    /\ config.custom_script = <<<<" ">>, <<"c">>>>
    /\ Positions("call", "Script") # {}
    /\ config.build_commands = <<>>
    /\ HasFailed(test_results)
    /\ config.deployment_commands # <<>>
    /\ Positions("stage", "Deploy") = {}
    /\ gui.completions = <<"FAILED", "FAILED">>

\* the second line of the script failed and the run ended without a stage
C33_WitnessScript ==
    /\ pc = "Completed"
    /\ ScriptFailed
    /\ Len(results) = 2
    /\ config.build_commands # <<>>
====
